---- MODULE Spec2Model ----
(***************************************************************************)
(* Model of the Ymd calendar-date value type of src/src/index.ts.          *)
(*                                                                         *)
(* Strings are sequences of one-character strings, so that the regular     *)
(* expression test, the parsing done by `new Date(value)` and the          *)
(* formatting done by the `value` getter are all computed character by     *)
(* character.  A JavaScript Date holding a UTC midnight is its day number  *)
(* (days since 1970-01-01); a Date built from local fields is the record   *)
(* [day, h] of its local calendar day and local hour.                      *)
(***************************************************************************)
EXTENDS Integers, Sequences, FiniteSets, TLC

VARIABLES engine, tz, cur, depth, last, iter

vars == <<engine, tz, cur, depth, last, iter>>

(***************************************************************************)
(* Bounds of the model.                                                    *)
(***************************************************************************)
MaxDepth == 2
MaxCount == 1
MaxLen == 3
MaxWeeks == 6

(***************************************************************************)
(* Characters and strings.                                                 *)
(***************************************************************************)
DigitChars == <<"0", "1", "2", "3", "4", "5", "6", "7", "8", "9">>

Digits == {DigitChars[i] : i \in 1..10}

DigitTable == [c \in Digits |-> (CHOOSE i \in 1..10 : DigitChars[i] = c) - 1]

DigitVal(c) == DigitTable[c]

\* String(n) of a JavaScript integer number
RECURSIVE NatToString(_)
NatToString(n) ==
  IF n < 10 THEN <<DigitChars[n + 1]>>
  ELSE NatToString(n \div 10) \o <<DigitChars[(n % 10) + 1]>>

NumberToString(n) == IF n < 0 THEN <<"-">> \o NatToString(-n) ELSE NatToString(n)

\* the decimal number written by the digits s[from..to]
RECURSIVE DigitsToNumber(_, _, _)
DigitsToNumber(s, from, to) ==
  IF from > to THEN 0
  ELSE 10 * DigitsToNumber(s, from, to - 1) + DigitVal(s[to])

padDayOrMonth(n) ==
  LET s == NumberToString(n)
  IN IF Len(s) < 2 THEN <<"0">> \o s ELSE s

YYYY_MM_DD_REGEX(s) ==
  /\ Len(s) = 10
  /\ \A i \in {1, 2, 3, 4, 6, 7, 9, 10} : s[i] \in Digits
  /\ s[5] = "-"
  /\ s[8] = "-"

(***************************************************************************)
(* The calendar arithmetic of the ECMAScript Date object.                  *)
(***************************************************************************)
IsLeapYear(y) == (y % 4 = 0) /\ ((y % 100 # 0) \/ (y % 400 = 0))

\* day number of January 1st of year y
DayFromYear(y) ==
  365 * (y - 1970) + ((y - 1969) \div 4) - ((y - 1901) \div 100) + ((y - 1601) \div 400)

CumDaysCommon == <<0, 31, 59, 90, 120, 151, 181, 212, 243, 273, 304, 334, 365>>
CumDaysLeap == <<0, 31, 60, 91, 121, 152, 182, 213, 244, 274, 305, 335, 366>>

\* CumDays(y)[m + 1] is the number of days of year y before month m (0-based)
CumDays(y) == IF IsLeapYear(y) THEN CumDaysLeap ELSE CumDaysCommon

DaysInMonth(y, m) == CumDays(y)[m + 2] - CumDays(y)[m + 1]

\* MakeDay(year, month, date): month and date may lie outside their ranges
MakeDay(year, month, date) ==
  LET ym == year + (month \div 12)
      mn == month % 12
  IN DayFromYear(ym) + CumDays(ym)[mn + 1] + date - 1

\* the year y with DayFromYear(y) <= t < DayFromYear(y + 1)
YearFromDay(t) ==
  LET est == 1970 + ((t * 400) \div 146097)
  IN IF DayFromYear(est) > t THEN est - 1
     ELSE IF DayFromYear(est + 1) <= t THEN est + 1
     ELSE est

\* the month m of year y with CumDays(y)[m + 1] <= dayInYear < CumDays(y)[m + 2]
MonthInYear(y, dayInYear) ==
  LET est == dayInYear \div 31
  IN IF dayInYear >= CumDays(y)[est + 2] THEN est + 1 ELSE est

\* the year, month (0-based) and day of the month of day number t
FieldsFromDay(t) ==
  LET y == YearFromDay(t)
      diy == t - DayFromYear(y)
      m == MonthInYear(y, diy)
  IN [year |-> y, monthZeroIndexed |-> m, dayOfMonth |-> diy - CumDays(y)[m + 1] + 1]

MonthFromDay(t) == FieldsFromDay(t).monthZeroIndexed

DateFromDay(t) == FieldsFromDay(t).dayOfMonth

WeekDay(t) == (t + 4) % 7

(***************************************************************************)
(* Results of calls: a returned value or a thrown error.                   *)
(***************************************************************************)
\* kind is the type of the value returned, or "throw"
Ok(type, v) == [kind |-> type, val |-> v]
Throw(e) == [kind |-> "throw", val |-> e]
IsOk(r) == r.kind \notin {"throw", "truncated"}

NoYmd == [year |-> -1, monthZeroIndexed |-> -1, dayOfMonth |-> -1]

\* a time value: Invalid Date, or the day number of a UTC midnight
NaN == [nan |-> TRUE, day |-> 0]
UtcMidnight(t) == [nan |-> FALSE, day |-> t]
isNaN(d) == d.nan

\* the fields as written in a text of the right shape
WrittenFields(s) ==
  [year |-> DigitsToNumber(s, 1, 4),
   monthZeroIndexed |-> DigitsToNumber(s, 6, 7) - 1,
   dayOfMonth |-> DigitsToNumber(s, 9, 10)]

(***************************************************************************)
(* new Date(value) for a string that passed YYYY_MM_DD_REGEX.  A day of    *)
(* 01..31 that exceeds the length of the month is rejected by engines that *)
(* validate the day against the month and carried into the next month by   *)
(* V8, which validates it against 1..31 only.                              *)
(***************************************************************************)
DateParse(s) ==
  LET y == DigitsToNumber(s, 1, 4)
      mo == DigitsToNumber(s, 6, 7)
      d == DigitsToNumber(s, 9, 10)
  IN IF mo < 1 \/ mo > 12 \/ d < 1 \/ d > 31 THEN NaN
     ELSE IF d > DaysInMonth(y, mo - 1) /\ engine = "strict" THEN NaN
     ELSE UtcMidnight(MakeDay(y, mo - 1, d))

\* a constructor that keeps the fields as written instead of reading them
\* back from the Date
NewYmd_KeepsWrittenFields(s) ==
  IF ~YYYY_MM_DD_REGEX(s) THEN Throw("Error")
  ELSE IF isNaN(DateParse(s)) THEN Throw("YmdInvalidDateError")
  ELSE Ok("Ymd", WrittenFields(s))

\* constructor(value)
NewYmd(s) ==
  IF ~YYYY_MM_DD_REGEX(s) THEN Throw("Error")
  ELSE LET jsDate == DateParse(s)
       IN IF isNaN(jsDate) THEN Throw("YmdInvalidDateError")
          ELSE Ok("Ymd", [year |-> YearFromDay(jsDate.day),
                          monthZeroIndexed |-> MonthFromDay(jsDate.day),
                          dayOfMonth |-> DateFromDay(jsDate.day)])

\* get value()
value(ymd) ==
  NumberToString(ymd.year) \o <<"-">> \o padDayOrMonth(ymd.monthZeroIndexed + 1)
    \o <<"-">> \o padDayOrMonth(ymd.dayOfMonth)

\* static isValid(value)
isValid(s) ==
  LET r == NewYmd(s)
  IN IF IsOk(r) THEN value(r.val) = s ELSE FALSE

(***************************************************************************)
(* Date objects built from local fields.  tz is the set of local calendar  *)
(* days whose midnight is skipped by a clock change of the local zone      *)
(* (00:00 -> 01:00); a skipped local time is read one hour later.          *)
(***************************************************************************)
ResolveLocal(day, h) == [day |-> day, h |-> IF h = 0 /\ day \in tz THEN 1 ELSE h]

\* new Date(year, monthIndex, day): years 0..99 denote 1900..1999
DateLocal(year, month, date) ==
  LET yr == IF 0 <= year /\ year <= 99 THEN 1900 + year ELSE year
  IN ResolveLocal(MakeDay(yr, month, date), 0)

getFullYear(dt) == YearFromDay(dt.day)
getMonth(dt) == MonthFromDay(dt.day)
getDate(dt) == DateFromDay(dt.day)
getDay(dt) == WeekDay(dt.day)
getHours(dt) == dt.h

setDate(dt, date) == ResolveLocal(MakeDay(getFullYear(dt), getMonth(dt), date), dt.h)
setMonth(dt, month, date) == ResolveLocal(MakeDay(getFullYear(dt), month, date), dt.h)
setFullYear(dt, year, month, date) == ResolveLocal(MakeDay(year, month, date), dt.h)

\* hours on the local wall clock; the order of two Dates is the order of these
TimeValue(dt) == 24 * dt.day + dt.h

(***************************************************************************)
(* The date-fns functions imported by the module.                          *)
(***************************************************************************)
dfAddDays(date, amount) ==
  IF amount = 0 THEN date ELSE setDate(date, getDate(date) + amount)

dfAddMonths(date, amount) ==
  IF amount = 0 THEN date
  ELSE LET dayOfMonth == getDate(date)
           endOfDesiredMonth == setMonth(date, getMonth(date) + amount + 1, 0)
           daysInMonth == getDate(endOfDesiredMonth)
       IN IF dayOfMonth >= daysInMonth THEN endOfDesiredMonth
          ELSE setFullYear(date, getFullYear(endOfDesiredMonth),
                           getMonth(endOfDesiredMonth), dayOfMonth)

dfPreviousDay(date, day) ==
  LET delta == getDay(date) - day
  IN dfAddDays(date, -(IF delta <= 0 THEN delta + 7 ELSE delta))

dfNextDay(date, day) ==
  LET delta == day - getDay(date)
  IN dfAddDays(date, IF delta <= 0 THEN delta + 7 ELSE delta)

dfStartOfDay(date) == ResolveLocal(date.day, 0)

\* Math.round of hours / 24
RoundDays(hours) == (2 * hours + 24) \div 48

dfDifferenceInCalendarDays(laterDate, earlierDate) ==
  RoundDays(TimeValue(dfStartOfDay(laterDate)) - TimeValue(dfStartOfDay(earlierDate)))

Sign(n) == IF n < 0 THEN -1 ELSE IF n > 0 THEN 1 ELSE 0

Abs(n) == IF n < 0 THEN -n ELSE n

compareLocalAsc(laterDate, earlierDate) ==
  LET dy == getFullYear(laterDate) - getFullYear(earlierDate)
      dm == getMonth(laterDate) - getMonth(earlierDate)
      dd == getDate(laterDate) - getDate(earlierDate)
      dh == getHours(laterDate) - getHours(earlierDate)
  IN Sign(IF dy # 0 THEN dy ELSE IF dm # 0 THEN dm ELSE IF dd # 0 THEN dd ELSE dh)

dfDifferenceInDays(laterDate, earlierDate) ==
  LET sign == compareLocalAsc(laterDate, earlierDate)
      difference == Abs(dfDifferenceInCalendarDays(laterDate, earlierDate))
      moved == setDate(laterDate, getDate(laterDate) - sign * difference)
      isLastDayNotFull == IF compareLocalAsc(moved, earlierDate) = -sign THEN 1 ELSE 0
  IN sign * (difference - isLastDayNotFull)

(***************************************************************************)
(* Ymd: conversions, arithmetic, weekday search.                           *)
(***************************************************************************)
asDateAtLocal(ymd) == DateLocal(ymd.year, ymd.monthZeroIndexed, ymd.dayOfMonth)

fromDateAtLocal(date) ==
  NewYmd(NumberToString(getFullYear(date)) \o <<"-">> \o padDayOrMonth(getMonth(date) + 1)
           \o <<"-">> \o padDayOrMonth(getDate(date)))

build(year, monthZeroIndexed, dayOfMonth) ==
  NewYmd(NumberToString(year) \o <<"-">> \o padDayOrMonth(monthZeroIndexed + 1)
           \o <<"-">> \o padDayOrMonth(dayOfMonth))

addDays(ymd, count) == fromDateAtLocal(dfAddDays(asDateAtLocal(ymd), count))

addMonths(ymd, count) == fromDateAtLocal(dfAddMonths(asDateAtLocal(ymd), count))

dayOfWeek(ymd) == getDay(asDateAtLocal(ymd))

previousDayOfWeekOccurrence(ymd, dow) ==
  fromDateAtLocal(dfPreviousDay(asDateAtLocal(ymd), dow))

currentOrPreviousDayOfWeekOccurrence(ymd, dow) ==
  IF dayOfWeek(ymd) = dow THEN Ok("Ymd", ymd) ELSE previousDayOfWeekOccurrence(ymd, dow)

nextDayOfWeekOccurrence(ymd, dow) ==
  fromDateAtLocal(dfNextDay(asDateAtLocal(ymd), dow))

currentOrNextDayOfWeekOccurrence(ymd, dow) ==
  IF dayOfWeek(ymd) = dow THEN Ok("Ymd", ymd) ELSE nextDayOfWeekOccurrence(ymd, dow)

startOfWeek(ymd, dow) == currentOrPreviousDayOfWeekOccurrence(ymd, dow)

startOfMonth(ymd) == build(ymd.year, ymd.monthZeroIndexed, 1)

endOfMonth(ymd) ==
  LET s == startOfMonth(ymd)
  IN IF ~IsOk(s) THEN s
     ELSE LET n == addMonths(s.val, 1)
          IN IF ~IsOk(n) THEN n ELSE addDays(n.val, -1)

(***************************************************************************)
(* Operands given as a Ymd or as a string; comparison and differences.     *)
(***************************************************************************)
AsYmd(ymd) == [tag |-> "Ymd", ymd |-> ymd, str |-> <<>>]
AsString(s) == [tag |-> "string", ymd |-> NoYmd, str |-> s]

normalizeYmd(x) == IF x.tag = "Ymd" THEN Ok("Ymd", x.ymd) ELSE NewYmd(x.str)

normalizeFromTo(from, to) ==
  LET fromYmd == normalizeYmd(from)
      toYmd == normalizeYmd(to)
  IN IF ~IsOk(fromYmd) THEN fromYmd
     ELSE IF ~IsOk(toYmd) THEN toYmd
     ELSE Ok("FromTo", [from |-> fromYmd.val, to |-> toYmd.val])

gt(ymd, other) ==
  LET o == normalizeYmd(other)
  IN IF ~IsOk(o) THEN o
     ELSE Ok("boolean", TimeValue(asDateAtLocal(ymd)) > TimeValue(asDateAtLocal(o.val)))

gte(ymd, other) ==
  LET o == normalizeYmd(other)
  IN IF ~IsOk(o) THEN o
     ELSE Ok("boolean", TimeValue(asDateAtLocal(ymd)) >= TimeValue(asDateAtLocal(o.val)))

lt(ymd, other) ==
  LET o == normalizeYmd(other)
  IN IF ~IsOk(o) THEN o
     ELSE Ok("boolean", TimeValue(asDateAtLocal(ymd)) < TimeValue(asDateAtLocal(o.val)))

lte(ymd, other) ==
  LET o == normalizeYmd(other)
  IN IF ~IsOk(o) THEN o
     ELSE Ok("boolean", TimeValue(asDateAtLocal(ymd)) <= TimeValue(asDateAtLocal(o.val)))

eq(ymd, other) ==
  LET o == normalizeYmd(other)
  IN IF ~IsOk(o) THEN o ELSE Ok("boolean", value(ymd) = value(o.val))

differenceInDays(from, to) ==
  LET ft == normalizeFromTo(from, to)
  IN IF ~IsOk(ft) THEN ft
     ELSE Ok("number", dfDifferenceInDays(asDateAtLocal(ft.val.to), asDateAtLocal(ft.val.from)))

compareAsc(a, b) == differenceInDays(b, a)

compareDesc(a, b) ==
  LET c == compareAsc(a, b)
  IN IF ~IsOk(c) THEN c ELSE Ok("number", -c.val)

countDaysInclusive(from, to) ==
  LET ft == normalizeFromTo(from, to)
  IN IF ~IsOk(ft) THEN ft
     ELSE IF gt(ft.val.from, AsYmd(ft.val.to)).val THEN Throw("Error")
     ELSE Ok("number", dfDifferenceInCalendarDays(asDateAtLocal(ft.val.to),
                                                  asDateAtLocal(ft.val.from)) + 1)

\* Duration.DAYS_IN_WEEK
DAYS_IN_WEEK == 7

(***************************************************************************)
(* Inclusive ranges.  The loop of dayArray is followed for at most MaxLen  *)
(* dates; a longer run is reported as Truncated.                           *)
(***************************************************************************)
Truncated == [kind |-> "truncated", val |-> <<>>]

RECURSIVE dayArrayLoopWithin(_, _, _, _)
dayArrayLoopWithin(curr, to, interval, limit) ==
  IF ~lte(curr, AsYmd(to)).val THEN Ok("Array", interval)
  ELSE IF Len(interval) = limit THEN Truncated
  ELSE LET n == addDays(curr, 1)
       IN IF ~IsOk(n) THEN n
          ELSE dayArrayLoopWithin(n.val, to, Append(interval, curr), limit)

dayArrayLoop(curr, to, interval) == dayArrayLoopWithin(curr, to, interval, MaxLen)

dayArray(from, to) ==
  LET ft == normalizeFromTo(from, to)
  IN IF ~IsOk(ft) THEN ft ELSE dayArrayLoop(ft.val.from, ft.val.to, <<>>)

(***************************************************************************)
(* The calendar grid of a month.  Its call of dayArray is followed for at  *)
(* most MaxWeeks weeks and one day more.                                   *)
(***************************************************************************)
\* the value of a call, taken once
Returned(results) == CHOOSE r \in results : TRUE

calendarMonthDateRangeOf(monthStartYmd, lastDayInMonth, weekStartsOnWeekDayIdx) ==
  LET weekEndsOnDayOfWeek ==
        (weekStartsOnWeekDayIdx + DAYS_IN_WEEK - 1) % DAYS_IN_WEEK
  IN IF ~IsOk(monthStartYmd) THEN monthStartYmd
     ELSE IF ~IsOk(lastDayInMonth) THEN lastDayInMonth
     ELSE Returned(
            { IF ~IsOk(start) THEN start
              ELSE IF ~IsOk(end) THEN end
              ELSE Ok("DateRange", [start |-> start.val, end |-> end.val]) :
              start \in {currentOrPreviousDayOfWeekOccurrence(monthStartYmd.val,
                                                              weekStartsOnWeekDayIdx)},
              end \in {currentOrNextDayOfWeekOccurrence(lastDayInMonth.val,
                                                        weekEndsOnDayOfWeek)} })

calendarMonthDateRange(ymd, weekStartsOnWeekDayIdx) ==
  Returned({ calendarMonthDateRangeOf(monthStartYmd, lastDayInMonth, weekStartsOnWeekDayIdx) :
             monthStartYmd \in {startOfMonth(ymd)}, lastDayInMonth \in {endOfMonth(ymd)} })

\* allDates.splice(0, DAYS_IN_WEEK) until allDates is empty
RECURSIVE spliceWeeks(_, _)
spliceWeeks(allDates, weeks) ==
  IF Len(allDates) = 0 THEN weeks
  ELSE Returned({ spliceWeeks(SubSeq(allDates, n + 1, Len(allDates)),
                              Append(weeks, SubSeq(allDates, 1, n))) :
                  n \in {IF Len(allDates) < DAYS_IN_WEEK THEN Len(allDates)
                                                         ELSE DAYS_IN_WEEK} })

calendarWeeksOf(range) ==
  IF ~IsOk(range) THEN range
  ELSE Returned(
         { IF ~IsOk(allDates) THEN allDates
           ELSE Ok("Weeks", spliceWeeks(allDates.val, <<>>)) :
           allDates \in
             { LET ft == normalizeFromTo(AsYmd(range.val.start), AsYmd(range.val.end))
               IN dayArrayLoopWithin(ft.val.from, ft.val.to, <<>>,
                                     MaxWeeks * DAYS_IN_WEEK + 1) } })

calendarWeeksForMonth(ymd, weekStartsOnWeekDayIdx) ==
  Returned({ calendarWeeksOf(range) :
             range \in {calendarMonthDateRange(ymd, weekStartsOnWeekDayIdx)} })

\* a generator object of dayGenerator: its arguments, where its body stands
\* ("start": not begun, "yield": suspended at the yield, "done": finished),
\* its local variables, and what it has yielded so far
Generator(from, to) ==
  [state |-> "start", from |-> from, to |-> to, curr |-> NoYmd, toYmd |-> NoYmd,
   yielded |-> <<>>, thrown |-> FALSE]

NoGenerator ==
  [state |-> "none", from |-> AsString(<<>>), to |-> AsString(<<>>), curr |-> NoYmd,
   toYmd |-> NoYmd, yielded |-> <<>>, thrown |-> FALSE]

IterResult(done, v) == Ok("IteratorResult", [done |-> done, value |-> v])

\* the loop test of dayGenerator with curr = c, and the yield or return after it
generatorTest(g, c, to) ==
  IF lte(c, AsYmd(to)).val
    THEN [gen |-> [g EXCEPT !.state = "yield", !.curr = c, !.toYmd = to,
                            !.yielded = Append(g.yielded, c)],
          out |-> IterResult(FALSE, c)]
    ELSE [gen |-> [g EXCEPT !.state = "done", !.curr = c, !.toYmd = to],
          out |-> IterResult(TRUE, NoYmd)]

generatorFail(g, err) ==
  [gen |-> [g EXCEPT !.state = "done", !.thrown = TRUE], out |-> err]

\* next() on generator g: the generator afterwards and what next() returns
generatorNext(g) ==
  IF g.state = "start"
    THEN LET ft == normalizeFromTo(g.from, g.to)
         IN IF ~IsOk(ft) THEN generatorFail(g, ft)
            ELSE generatorTest(g, ft.val.from, ft.val.to)
  ELSE IF g.state = "yield"
    THEN LET n == addDays(g.curr, 1)
         IN IF ~IsOk(n) THEN generatorFail(g, n)
            ELSE generatorTest(g, n.val, g.toYmd)
  ELSE [gen |-> g, out |-> IterResult(TRUE, NoYmd)]

(***************************************************************************)
(* Inputs.  Written(y, mo, d) is the ten-character text with the year      *)
(* written on four digits and month and day on two.                        *)
(***************************************************************************)
Pad4(n) ==
  <<DigitChars[((n \div 1000) % 10) + 1], DigitChars[((n \div 100) % 10) + 1],
    DigitChars[((n \div 10) % 10) + 1], DigitChars[(n % 10) + 1]>>

Pad2(n) == <<DigitChars[((n \div 10) % 10) + 1], DigitChars[(n % 10) + 1]>>

Written(y, mo, d) == Pad4(y) \o <<"-">> \o Pad2(mo) \o <<"-">> \o Pad2(d)

\* real calendar dates
ValidInputs ==
  { Written(2024, 2, 29), Written(2023, 1, 28), Written(2023, 1, 31),
    Written(2023, 12, 31), Written(2024, 3, 10), Written(2023, 11, 13),
    Written(2025, 1, 1), Written(2025, 1, 31), Written(0, 1, 1),
    Written(50, 3, 1), Written(99, 12, 31), Written(100, 1, 1),
    Written(999, 12, 31), Written(1000, 1, 1), Written(9999, 12, 31) }

\* the right shape, but no calendar date
ImpossibleInputs ==
  { Written(2024, 2, 30), Written(2023, 2, 29), Written(2024, 4, 31),
    Written(2024, 13, 1), Written(2024, 0, 10), Written(2024, 1, 0),
    Written(2024, 1, 32) }

\* the wrong shape
MalformedInputs ==
  { <<"2", "0", "2", "4", "-", "2", "-", "3", "0">>,
    <<"i", "n", "v", "a", "l", "i", "d">>,
    <<"2", "0", "2", "4", "/", "0", "2", "/", "2", "8">>,
    <<"2", "0", "2", "4", "-", "0", "2", "-", "2", "8", "1">>,
    <<>> }

InputStrings == ValidInputs \cup ImpossibleInputs \cup MalformedInputs

\* the second operand of comparisons and differences, when given as a string
OperandStrings ==
  { Written(2025, 1, 1), Written(2025, 1, 31), Written(2024, 3, 9),
    Written(2024, 3, 11), Written(99, 12, 31), Written(100, 1, 1),
    Written(2024, 2, 30), <<"i", "n", "v", "a", "l", "i", "d">> }

\* the ends of ranges
RangeStrings ==
  { Written(2024, 2, 28), Written(2024, 3, 1), Written(50, 1, 1), Written(50, 1, 2),
    Written(9999, 12, 31) }

RangeOperands ==
  {AsString(s) : s \in RangeStrings} \cup {AsYmd(WrittenFields(Written(2024, 3, 1)))}

\* two generator objects can be alive at once
Cursors == {"g1", "g2"}

BuildYears == {50, 2023, 2024, 10000}
BuildMonths == {-1, 0, 1, 11, 12}
BuildDays == {0, 1, 29, 30, 31, 100}

DayOfWeekValues == 0..(DAYS_IN_WEEK - 1)

Counts == (-MaxCount)..MaxCount

Engines == {"v8", "strict"}

\* no skipped midnight, or the one of 2024-03-10 (America/Havana)
Zones == { {}, {MakeDay(2024, 2, 10)} }

(***************************************************************************)
(* The state machine: cur is the Ymd at hand, last the latest call.        *)
(***************************************************************************)
Call(op, recv, args, out) == [op |-> op, recv |-> recv, args |-> args, out |-> out]

NoIter == [c \in Cursors |-> NoGenerator]

Init ==
  /\ engine \in Engines
  /\ tz \in Zones
  /\ cur = NoYmd
  /\ depth = 0
  /\ last = Call("none", NoYmd, <<>>, Ok("undefined", FALSE))
  /\ iter = NoIter

\* a call that returns a number, a boolean or nothing new
Plain(op, recv, args, out) ==
  /\ last' = Call(op, recv, args, out)
  /\ UNCHANGED <<engine, tz, cur, depth, iter>>

\* a call on cur that returns a Ymd, which becomes the Ymd at hand; recv is
\* the receiver as the call leaves it (no method assigns a field)
Derive(op, args, out) ==
  /\ cur # NoYmd
  /\ depth < MaxDepth
  /\ last' = Call(op, cur, args, out)
  /\ depth' = depth + 1
  /\ cur' = IF IsOk(out) THEN out.val ELSE cur
  /\ UNCHANGED <<engine, tz, iter>>

Construct ==
  \E s \in InputStrings :
    LET out == NewYmd(s)
    IN /\ cur = NoYmd
       /\ last' = Call("new", NoYmd, <<s>>, out)
       /\ IF IsOk(out) THEN cur' = out.val /\ depth' = 0
                       ELSE UNCHANGED <<cur, depth>>
       /\ UNCHANGED <<engine, tz, iter>>

Build ==
  \E y \in BuildYears, m \in BuildMonths, d \in BuildDays :
    LET out == build(y, m, d)
    IN /\ cur = NoYmd
       /\ last' = Call("build", NoYmd, <<y, m, d>>, out)
       /\ IF IsOk(out) THEN cur' = out.val /\ depth' = 0
                       ELSE UNCHANGED <<cur, depth>>
       /\ UNCHANGED <<engine, tz, iter>>

IsValid == cur = NoYmd /\ \E s \in InputStrings : Plain("isValid", NoYmd, <<s>>, Ok("boolean", isValid(s)))

Value == cur # NoYmd /\ Plain("value", cur, <<>>, Ok("string", value(cur)))

AddDays == \E n \in Counts : Derive("addDays", <<n>>, addDays(cur, n))

AddMonths == \E n \in Counts : Derive("addMonths", <<n>>, addMonths(cur, n))

StartOfMonth == Derive("startOfMonth", <<>>, startOfMonth(cur))

EndOfMonth == Derive("endOfMonth", <<>>, endOfMonth(cur))

PreviousDayOfWeekOccurrence ==
  \E t \in DayOfWeekValues :
    Derive("previousDayOfWeekOccurrence", <<t>>, previousDayOfWeekOccurrence(cur, t))

NextDayOfWeekOccurrence ==
  \E t \in DayOfWeekValues :
    Derive("nextDayOfWeekOccurrence", <<t>>, nextDayOfWeekOccurrence(cur, t))

CurrentOrPreviousDayOfWeekOccurrence ==
  \E t \in DayOfWeekValues :
    Derive("currentOrPreviousDayOfWeekOccurrence", <<t>>,
           currentOrPreviousDayOfWeekOccurrence(cur, t))

CurrentOrNextDayOfWeekOccurrence ==
  \E t \in DayOfWeekValues :
    Derive("currentOrNextDayOfWeekOccurrence", <<t>>,
           currentOrNextDayOfWeekOccurrence(cur, t))

StartOfWeek ==
  \E t \in DayOfWeekValues : Derive("startOfWeek", <<t>>, startOfWeek(cur, t))

\* the operands of a call on two dates: cur with itself or with a string
Others == {AsYmd(cur)} \cup {AsString(s) : s \in OperandStrings}

Pairs == {<<AsYmd(cur), o>> : o \in Others} \cup {<<o, AsYmd(cur)>> : o \in Others}

Gt == cur # NoYmd /\ \E o \in Others : Plain("gt", cur, <<o>>, gt(cur, o))

Gte == cur # NoYmd /\ \E o \in Others : Plain("gte", cur, <<o>>, gte(cur, o))

Lt == cur # NoYmd /\ \E o \in Others : Plain("lt", cur, <<o>>, lt(cur, o))

Lte == cur # NoYmd /\ \E o \in Others : Plain("lte", cur, <<o>>, lte(cur, o))

Eq == cur # NoYmd /\ \E o \in Others : Plain("eq", cur, <<o>>, eq(cur, o))

DifferenceInDays ==
  /\ cur # NoYmd
  /\ \E p \in Pairs : Plain("differenceInDays", NoYmd, p, differenceInDays(p[1], p[2]))

CompareAsc ==
  /\ cur # NoYmd
  /\ \E p \in Pairs : Plain("compareAsc", NoYmd, p, compareAsc(p[1], p[2]))

CompareDesc ==
  /\ cur # NoYmd
  /\ \E p \in Pairs : Plain("compareDesc", NoYmd, p, compareDesc(p[1], p[2]))

CountDaysInclusive ==
  /\ cur # NoYmd
  /\ \E p \in Pairs : Plain("countDaysInclusive", NoYmd, p, countDaysInclusive(p[1], p[2]))

\* construction and validation
NextParse ==
  \/ Construct
  \/ Build
  \/ IsValid
  \/ Value

SpecParse == Init /\ [][NextParse]_vars

\* a Ymd and the calls that derive Ymds from it
Next ==
  \/ Construct
  \/ AddDays
  \/ AddMonths
  \/ StartOfMonth
  \/ EndOfMonth
  \/ PreviousDayOfWeekOccurrence
  \/ NextDayOfWeekOccurrence
  \/ CurrentOrPreviousDayOfWeekOccurrence
  \/ CurrentOrNextDayOfWeekOccurrence
  \/ StartOfWeek

Spec == Init /\ [][Next]_vars

\* a Ymd compared with, and measured against, a second date
NextCompare ==
  \/ Construct
  \/ Gt
  \/ Gte
  \/ Lt
  \/ Lte
  \/ Eq
  \/ DifferenceInDays
  \/ CompareAsc
  \/ CompareDesc
  \/ CountDaysInclusive

SpecCompare == Init /\ [][NextCompare]_vars

\* the eager form is called before any generator is made
DayArray ==
  \E from \in RangeOperands, to \in RangeOperands :
    /\ \A c \in Cursors : iter[c].state = "none"
    /\ dayArray(from, to).kind # "truncated"
    /\ Plain("dayArray", NoYmd, <<from, to>>, dayArray(from, to))

DayGenerator ==
  \E c \in Cursors, from \in RangeOperands, to \in RangeOperands :
    /\ iter[c].state = "none"
    /\ iter' = [iter EXCEPT ![c] = Generator(from, to)]
    /\ last' = Call("dayGenerator", NoYmd, <<from, to>>, Ok("Generator", c))
    /\ UNCHANGED <<engine, tz, cur, depth>>

GeneratorNext ==
  \E c \in Cursors :
    /\ iter[c].state # "none"
    /\ Len(iter[c].yielded) <= MaxLen
    /\ iter' = [iter EXCEPT ![c] = generatorNext(iter[c]).gen]
    /\ last' = Call("next", NoYmd, <<c>>, generatorNext(iter[c]).out)
    /\ UNCHANGED <<engine, tz, cur, depth>>

\* inclusive ranges, eager and lazy
NextRange ==
  \/ DayArray
  \/ DayGenerator
  \/ GeneratorNext

SpecRange == Init /\ [][NextRange]_vars

\* the latest call constructed the Ymd at hand
Constructed == last.op \in {"new", "build"} /\ IsOk(last.out)

\* the grid calls assign nothing, so each is made on the Ymd as construction
\* left it
CalendarMonthDateRange ==
  /\ Constructed
  /\ \E w \in DayOfWeekValues :
       Plain("calendarMonthDateRange", cur, <<w>>, calendarMonthDateRange(cur, w))

CalendarWeeksForMonth ==
  /\ Constructed
  /\ \E w \in DayOfWeekValues :
       LET out == calendarWeeksForMonth(cur, w)
       IN out.kind # "truncated" /\ Plain("calendarWeeksForMonth", cur, <<w>>, out)

\* the calendar grid of the month of a Ymd
NextCalendar ==
  \/ Construct
  \/ Build
  \/ CalendarMonthDateRange
  \/ CalendarWeeksForMonth

SpecCalendar == Init /\ [][NextCalendar]_vars

(***************************************************************************)
(* The calendar the claims speak of.                                       *)
(***************************************************************************)
IsRealDate(ymd) ==
  /\ ymd.monthZeroIndexed \in 0..11
  /\ ymd.dayOfMonth >= 1
  /\ ymd.dayOfMonth <= DaysInMonth(ymd.year, ymd.monthZeroIndexed)

\* the day number of a real date, and the date of a day number
DayOf(ymd) == MakeDay(ymd.year, ymd.monthZeroIndexed, ymd.dayOfMonth)

Min(a, b) == IF a < b THEN a ELSE b

DerivingOps ==
  {"addDays", "addMonths", "startOfMonth", "endOfMonth",
   "previousDayOfWeekOccurrence", "nextDayOfWeekOccurrence",
   "currentOrPreviousDayOfWeekOccurrence", "currentOrNextDayOfWeekOccurrence",
   "startOfWeek"}

Derived == last.op \in DerivingOps /\ IsOk(last.out)

(***************************************************************************)
(* C1: a text of the shape dddd-dd-dd that is no real calendar date makes  *)
(* construction fail with YmdInvalidDateError, and a construction that     *)
(* succeeds has the fields written in the text.                            *)
(***************************************************************************)
C1_ImpossibleDateRejected ==
  (last.op = "new" /\ YYYY_MM_DD_REGEX(last.args[1])) =>
    LET w == WrittenFields(last.args[1])
    IN /\ ~IsRealDate(w) =>
            (last.out.kind = "throw" /\ last.out.val = "YmdInvalidDateError")
       /\ IsOk(last.out) => last.out.val = w

(***************************************************************************)
(* C2: isValid returns true exactly for the texts of the shape dddd-dd-dd  *)
(* whose fields are a real calendar date, and false for every other text.  *)
(***************************************************************************)
C2_IsValidIffRealDate ==
  last.op = "isValid" =>
    /\ IsOk(last.out)
    /\ last.out.val <=>
         (YYYY_MM_DD_REGEX(last.args[1]) /\ IsRealDate(WrittenFields(last.args[1])))

(***************************************************************************)
(* C3: for a canonical text s of a real date with year 0000..9999,         *)
(* new Ymd(s).value is s, and parsing that value gives an equal Ymd.       *)
(***************************************************************************)
C3_RoundTrip ==
  (/\ last.op = "new"
   /\ YYYY_MM_DD_REGEX(last.args[1])
   /\ IsRealDate(WrittenFields(last.args[1]))) =>
    /\ IsOk(last.out)
    /\ value(last.out.val) = last.args[1]
    /\ IsOk(NewYmd(value(last.out.val)))
    /\ NewYmd(value(last.out.val)).val = last.out.val

(***************************************************************************)
(* C4: every Ymd that exists, constructed or returned by any sequence of   *)
(* addDays, addMonths, startOfMonth, endOfMonth, the weekday searches and  *)
(* startOfWeek, is a real calendar date, and the receiver of each call     *)
(* keeps its year, month and day.                                          *)
(***************************************************************************)
C4_AlwaysRealDate ==
  /\ cur # NoYmd => IsRealDate(cur)
  /\ (Constructed \/ Derived) => IsRealDate(last.out.val)
  /\ last.op \in DerivingOps => IsRealDate(last.recv)

C4_ReceiverUnchanged ==
  [][last'.op \in DerivingOps => last'.recv = cur]_vars

C4_RealDatesOnly == []C4_AlwaysRealDate /\ C4_ReceiverUnchanged

\* a Ymd derived by a call on a Ymd that was itself derived
C4_Witness == Derived /\ depth = MaxDepth /\ last.out.val # last.recv

(***************************************************************************)
(* C5: d.addDays(n) is the date n calendar days after d.                   *)
(***************************************************************************)
C5_AddDaysExact ==
  last.op = "addDays" =>
    /\ IsOk(last.out)
    /\ last.out.val = FieldsFromDay(DayOf(last.recv) + last.args[1])

(***************************************************************************)
(* C6: d.addMonths(n) lies in the month n months after that of d, on the   *)
(* day min(d.dayOfMonth, length of that month).                            *)
(***************************************************************************)
C6_AddMonthsClamped ==
  last.op = "addMonths" =>
    LET total == 12 * last.recv.year + last.recv.monthZeroIndexed + last.args[1]
        y == total \div 12
        m == total % 12
    IN /\ IsOk(last.out)
       /\ last.out.val = [year |-> y, monthZeroIndexed |-> m,
                          dayOfMonth |-> Min(last.recv.dayOfMonth, DaysInMonth(y, m))]

(***************************************************************************)
(* Operands that are valid dates, and the order of dates.                  *)
(***************************************************************************)
IsValidOperand(x) ==
  IF x.tag = "Ymd" THEN IsRealDate(x.ymd)
  ELSE YYYY_MM_DD_REGEX(x.str) /\ IsRealDate(WrittenFields(x.str))

\* the date an operand denotes
DateOfOperand(x) == IF x.tag = "Ymd" THEN x.ymd ELSE WrittenFields(x.str)

\* a precedes b in the lexicographic order of (year, month, day)
Precedes(a, b) ==
  \/ a.year < b.year
  \/ a.year = b.year /\ a.monthZeroIndexed < b.monthZeroIndexed
  \/ a.year = b.year /\ a.monthZeroIndexed = b.monthZeroIndexed
       /\ a.dayOfMonth < b.dayOfMonth

OperandOps ==
  {"gt", "gte", "lt", "lte", "eq", "differenceInDays", "compareAsc", "compareDesc",
   "countDaysInclusive", "dayArray"}

OnValidDates ==
  /\ last.op \in OperandOps
  /\ \A i \in 1..Len(last.args) : IsValidOperand(last.args[i])

(***************************************************************************)
(* C7: differenceInDays({from: a, to: b}) is the negation of               *)
(* differenceInDays({from: b, to: a}), a.addDays of it is b, and it is     *)
(* negative exactly when b precedes a.                                     *)
(***************************************************************************)
C7_DifferenceSymmetry ==
  (last.op = "differenceInDays" /\ OnValidDates) =>
    LET a == DateOfOperand(last.args[1])
        b == DateOfOperand(last.args[2])
        back == differenceInDays(last.args[2], last.args[1])
    IN /\ IsOk(last.out)
       /\ IsOk(back) /\ last.out.val = -back.val
       /\ IsOk(addDays(a, last.out.val)) /\ addDays(a, last.out.val).val = b
       /\ (last.out.val < 0) <=> Precedes(b, a)

(***************************************************************************)
(* C8: the sign of compareAsc(a, b) is negative, zero or positive exactly  *)
(* when a.lt(b), a.eq(b), a.gt(b); lt, eq and gt are the lexicographic     *)
(* order on (year, month, day); compareDesc is the negation of compareAsc. *)
(***************************************************************************)
C8_ComparatorConsistency ==
  OnValidDates =>
    /\ last.op = "compareAsc" =>
         LET a == DateOfOperand(last.args[1])
             b == DateOfOperand(last.args[2])
         IN /\ IsOk(last.out)
            /\ (last.out.val < 0) <=> Precedes(a, b)
            /\ (last.out.val = 0) <=> (a = b)
            /\ (last.out.val > 0) <=> Precedes(b, a)
    /\ last.op = "lt" =>
         (IsOk(last.out) /\ last.out.val = Precedes(last.recv, DateOfOperand(last.args[1])))
    /\ last.op = "eq" =>
         (IsOk(last.out) /\ last.out.val = (last.recv = DateOfOperand(last.args[1])))
    /\ last.op = "gt" =>
         (IsOk(last.out) /\ last.out.val = Precedes(DateOfOperand(last.args[1]), last.recv))
    /\ last.op = "compareDesc" =>
         /\ IsOk(last.out)
         /\ IsOk(compareAsc(last.args[1], last.args[2]))
         /\ last.out.val = -compareAsc(last.args[1], last.args[2]).val

(***************************************************************************)
(* C9: countDaysInclusive fails whenever from is later than to, and        *)
(* otherwise returns differenceInDays + 1, the number of dates of the      *)
(* inclusive range.                                                        *)
(***************************************************************************)
C9_CountDaysInclusive ==
  (last.op = "countDaysInclusive" /\ OnValidDates) =>
    LET from == DateOfOperand(last.args[1])
        to == DateOfOperand(last.args[2])
        diff == differenceInDays(last.args[1], last.args[2])
    IN IF Precedes(to, from) THEN last.out.kind = "throw"
       ELSE /\ IsOk(last.out)
            /\ IsOk(diff) /\ last.out.val = diff.val + 1
            /\ last.out.val = DayOf(to) - DayOf(from) + 1

(***************************************************************************)
(* C10: dayArray returns the dates from `from` to `to` inclusive, one day  *)
(* apart in ascending order (none when from is later than to), and every   *)
(* dayGenerator cursor yields that same sequence, whatever is done with    *)
(* the other cursor.                                                       *)
(***************************************************************************)
RangeLength(from, to) ==
  IF Precedes(to, from) THEN 0 ELSE DayOf(to) - DayOf(from) + 1

\* s holds the first Len(s) dates of the range that starts at from
IsRangePrefix(s, from, to) ==
  /\ Len(s) <= RangeLength(from, to)
  /\ \A i \in 1..Len(s) : s[i] = FieldsFromDay(DayOf(from) + i - 1)

IsRange(s, from, to) == IsRangePrefix(s, from, to) /\ Len(s) = RangeLength(from, to)

C10_RangeEnumeration ==
  /\ (last.op = "dayArray" /\ OnValidDates) =>
       /\ IsOk(last.out)
       /\ IsRange(last.out.val, DateOfOperand(last.args[1]), DateOfOperand(last.args[2]))
  /\ \A c \in Cursors :
       (iter[c].state # "none" /\ IsValidOperand(iter[c].from) /\ IsValidOperand(iter[c].to)) =>
         LET from == DateOfOperand(iter[c].from)
             to == DateOfOperand(iter[c].to)
         IN /\ ~iter[c].thrown
            /\ IsRangePrefix(iter[c].yielded, from, to)
            /\ iter[c].state = "done" => IsRange(iter[c].yielded, from, to)

(***************************************************************************)
(* The days of the month of a date, and the weeks of a grid end to end.    *)
(***************************************************************************)
FirstDayOfMonth(ymd) == MakeDay(ymd.year, ymd.monthZeroIndexed, 1)

LastDayOfMonth(ymd) ==
  MakeDay(ymd.year, ymd.monthZeroIndexed, DaysInMonth(ymd.year, ymd.monthZeroIndexed))

RECURSIVE Flatten(_)
Flatten(weeks) == IF weeks = <<>> THEN <<>> ELSE Head(weeks) \o Flatten(Tail(weeks))

(***************************************************************************)
(* C11: calendarWeeksForMonth returns weeks of exactly 7 dates each, which *)
(* end to end are consecutive ascending dates without gap or duplicate     *)
(* that contain every day of the month of d, and the first date of every   *)
(* week has the weekday weekStart.                                         *)
(***************************************************************************)
C11_CalendarWeeks ==
  last.op = "calendarWeeksForMonth" =>
    /\ IsOk(last.out)
    /\ LET weeks == last.out.val
           all == Flatten(weeks)
       IN /\ \A i \in 1..Len(weeks) : Len(weeks[i]) = DAYS_IN_WEEK
          /\ Len(all) > 0
          /\ \A i \in 1..Len(all) : all[i] = FieldsFromDay(DayOf(all[1]) + i - 1)
          /\ DayOf(all[1]) <= FirstDayOfMonth(last.recv)
          /\ DayOf(all[1]) + Len(all) - 1 >= LastDayOfMonth(last.recv)
          /\ \A i \in 1..Len(weeks) : WeekDay(DayOf(weeks[i][1])) = last.args[1]

(***************************************************************************)
(* C12: calendarMonthDateRange returns a start that has the weekday        *)
(* weekStart and lies 0..6 days on or before the first day of the month of *)
(* d, and an end that has the weekday (weekStart + 6) mod 7 and lies 0..6  *)
(* days on or after the last day of that month.                            *)
(***************************************************************************)
C12_CalendarMonthDateRange ==
  last.op = "calendarMonthDateRange" =>
    /\ IsOk(last.out)
    /\ LET start == last.out.val.start
           end == last.out.val.end
           weekStart == last.args[1]
       IN /\ IsRealDate(start) /\ IsRealDate(end)
          /\ WeekDay(DayOf(start)) = weekStart
          /\ FirstDayOfMonth(last.recv) - DayOf(start) \in 0..(DAYS_IN_WEEK - 1)
          /\ WeekDay(DayOf(end)) = (weekStart + 6) % DAYS_IN_WEEK
          /\ DayOf(end) - LastDayOfMonth(last.recv) \in 0..(DAYS_IN_WEEK - 1)

(***************************************************************************)
(* C13: previousDayOfWeekOccurrence(t) is the nearest date strictly before *)
(* d with weekday t (1..7 days earlier, 7 when d has weekday t),           *)
(* nextDayOfWeekOccurrence(t) the nearest strictly after d; the            *)
(* currentOr... searches and startOfWeek return d itself when d has        *)
(* weekday t and otherwise the strict result, 1..6 days away.              *)
(***************************************************************************)
StrictlyBefore(d, r, t) ==
  /\ WeekDay(DayOf(r)) = t
  /\ DayOf(d) - DayOf(r) \in 1..DAYS_IN_WEEK

StrictlyAfter(d, r, t) ==
  /\ WeekDay(DayOf(r)) = t
  /\ DayOf(r) - DayOf(d) \in 1..DAYS_IN_WEEK

C13_WeekdayOccurrence ==
  LET d == last.recv
      t == last.args[1]
      r == last.out.val
  IN /\ last.op = "previousDayOfWeekOccurrence" =>
          (IsOk(last.out) /\ IsRealDate(r) /\ StrictlyBefore(d, r, t))
     /\ last.op = "nextDayOfWeekOccurrence" =>
          (IsOk(last.out) /\ IsRealDate(r) /\ StrictlyAfter(d, r, t))
     /\ last.op \in {"currentOrPreviousDayOfWeekOccurrence", "startOfWeek"} =>
          /\ IsOk(last.out) /\ IsRealDate(r)
          /\ IF WeekDay(DayOf(d)) = t THEN r = d
             ELSE StrictlyBefore(d, r, t) /\ Ok("Ymd", r) = previousDayOfWeekOccurrence(d, t)
     /\ last.op = "currentOrNextDayOfWeekOccurrence" =>
          /\ IsOk(last.out) /\ IsRealDate(r)
          /\ IF WeekDay(DayOf(d)) = t THEN r = d
             ELSE StrictlyAfter(d, r, t) /\ Ok("Ymd", r) = nextDayOfWeekOccurrence(d, t)

====
